---- MODULE Spec2Model ----
(***************************************************************************)
(* A model of the ttsmaker client library (ttsmaker/ttsmaker.py): one      *)
(* TTSMaker client, the TTSOrder objects that exist, the local file        *)
(* system, and, for the operation that ran last, its arguments, the HTTP   *)
(* requests it issued, the server's reply and how it ended.                *)
(*                                                                         *)
(* Every operation is synchronous and blocking, so each is one action; the *)
(* remote server and the transport are the environment: the reply to a     *)
(* request is any reply of the bounded sets below, or a transport failure. *)
(* The local file system is taken to be reliable (open and write succeed). *)
(***************************************************************************)
EXTENDS Integers, Sequences, FiniteSets, TLC

VARIABLES
    ctorArgs,    \* the positional arguments TTSMaker(...) was constructed with
    token,       \* TTSMaker.token
    base_url,    \* TTSMaker.base_url
    orders,      \* the TTSOrder objects that exist, in order of construction
    fromCreate,  \* indices of the orders that create_tts_order returned
    fs,          \* the file system: path -> bytes, for the files that exist
    op,          \* the operation that ran last
    self,        \* the order it ran on (0: a client operation)
    args,        \* the arguments it was called with (name -> Python value)
    sent,        \* the HTTP requests it issued, in order
    reply,       \* the reply the transport gave to its request
    exc,         \* the exception it raised ("none": it returned)
    line,        \* the source line at which it returned or raised
    ret          \* the value it returned

vars == <<ctorArgs, token, base_url, orders, fromCreate, fs,
          op, self, args, sent, reply, exc, line, ret>>

client == <<ctorArgs, token, base_url>>

\* Most TTSOrder objects alive at once.
MaxOrders == 1

(***************************************************************************)
(* Python values.  n holds an int, or a float in tenths (10 is 1.0).       *)
(***************************************************************************)
PyNone  == [ty |-> "NoneType", s |-> "", n |-> 0]
PyStr(x) == [ty |-> "str", s |-> x, n |-> 0]
PyInt(k) == [ty |-> "int", s |-> "", n |-> k]
PyFloat(t) == [ty |-> "float", s |-> "", n |-> t]

\* bool(v), as `or` and `if` use it
Truthy(v) ==
    CASE v.ty = "NoneType" -> FALSE
      [] v.ty = "str"      -> v.s # ""
      [] OTHER             -> v.n # 0

\* str(v), as an f-string field formats it
Format(v) ==
    CASE v.ty = "NoneType" -> "None"
      [] v.ty = "str"      -> v.s
      [] v.ty = "int"      -> ToString(v.n)
      [] OTHER             -> ToString(v.n \div 10) \o "." \o ToString(v.n % 10)

\* A dict is a function from its keys; {} is EmptyDict.
EmptyDict == [k \in {} |-> PyNone]

\* d.get(k)
Get(d, k) == IF k \in DOMAIN d THEN d[k] ELSE PyNone

\* the parameter k of a call with the keyword arguments d
GetOr(d, k, default) == IF k \in DOMAIN d THEN d[k] ELSE default

(***************************************************************************)
(* JSON.  A JSON value is null, a string, an integer literal or a literal  *)
(* with a fraction; a JSON object is a function from its member names.     *)
(***************************************************************************)
JNull    == [jt |-> "null", s |-> "", n |-> 0]
JStr(x)  == [jt |-> "string", s |-> x, n |-> 0]
JInt(k)  == [jt |-> "int", s |-> "", n |-> k]
JReal(t) == [jt |-> "real", s |-> "", n |-> t]

\* json.dumps of one value
json_dumps_value(v) ==
    CASE v.ty = "NoneType" -> JNull
      [] v.ty = "str"      -> JStr(v.s)
      [] v.ty = "int"      -> JInt(v.n)
      [] OTHER             -> JReal(v.n)

\* json.dumps(data) of a dict
json_dumps(d) == [k \in DOMAIN d |-> json_dumps_value(d[k])]

\* the decoding of one JSON value
json_value(j) ==
    CASE j.jt = "null"   -> PyNone
      [] j.jt = "string" -> PyStr(j.s)
      [] j.jt = "int"    -> PyInt(j.n)
      [] OTHER           -> PyFloat(j.n)

\* response.json() of a body that is a JSON object
json(body) == [k \in DOMAIN body |-> json_value(body[k])]

(***************************************************************************)
(* The environment: what callers pass and what the server answers.         *)
(***************************************************************************)
DemoToken == "ttsmaker_demo_token"

\* TTSMaker() and TTSMaker(token)
CtorArgs ==
    { <<>>, <<PyNone>>, <<PyStr("")>>, <<PyInt(0)>>, <<PyStr("my_token")>> }

\* get_voice_list() and get_voice_list(language)
VoiceArgs ==
    { EmptyDict, [language |-> PyNone], [language |-> PyStr("en")] }

\* create_tts_order(text, voice_id, ...): the defaults, values inside the
\* documented domains and values outside them
CreateArgs ==
    { [text |-> PyStr("hello"), voice_id |-> PyInt(1)],
      [text |-> PyStr("hello"), voice_id |-> PyInt(2), audio_format |-> PyStr("ogg"),
       audio_speed |-> PyFloat(5), audio_volume |-> PyInt(10),
       text_paragraph_pause_time |-> PyInt(500)],
      [text |-> PyStr(""), voice_id |-> PyInt(-1), audio_format |-> PyStr("wav"),
       audio_speed |-> PyFloat(30), audio_volume |-> PyInt(11),
       text_paragraph_pause_time |-> PyInt(9999)] }

\* save_audio(filename)
SaveArgs == { [filename |-> PyStr("out")] }

AudioUrl == "http://x/a.mp3"

\* JSON objects the API answers with
SuccessBodies ==
    { [status |-> JStr("success"), audio_file_url |-> JStr(AudioUrl),
       audio_file_type |-> JStr("mp3")],
      [status |-> JStr("success"), audio_file_url |-> JStr(AudioUrl)],
      [status |-> JStr("success"), audio_file_type |-> JStr("ogg")] }

FailureBodies ==
    { [k \in {} |-> JNull],
      [status |-> JNull],
      [status |-> JStr("error"), error_details |-> JStr("quota"),
       audio_file_url |-> JStr(AudioUrl), audio_file_type |-> JStr("mp3")] }

ApiBodies == SuccessBodies \cup FailureBodies

NoReply == [kind |-> "none", status_code |-> 0, body |-> [k \in {} |-> JNull], content |-> ""]

\* the transport raised (no connection, a timeout, ...)
Failure == [NoReply EXCEPT !.kind = "failure"]

\* a response whose body is not JSON
NotJson == [NoReply EXCEPT !.kind = "notjson", !.status_code = 200, !.content = "<html>"]

JsonReply(b) == [NoReply EXCEPT !.kind = "json", !.status_code = 200, !.body = b]

AudioReply(code, bytes) ==
    [NoReply EXCEPT !.kind = "audio", !.status_code = code, !.content = bytes]

ApiReplies == { JsonReply(b) : b \in ApiBodies } \cup { Failure, NotJson }

AudioReplies ==
    { AudioReply(200, "ID3"), AudioReply(200, "OggS"), AudioReply(206, "ID3"),
      AudioReply(404, ""), Failure }

\* the files that exist before the library is used
InitialFiles == ("notes.txt" :> "kept")

\* dicts a caller can construct a TTSOrder from
OrderData == { json(b) : b \in ApiBodies }

(***************************************************************************)
(* TTSMaker and TTSOrder: the constructors and the values the methods      *)
(* build.                                                                  *)
(***************************************************************************)
BaseUrl == "https://api.ttsmaker.cn/v1/"

NoRet == [kind |-> "none", dict |-> EmptyDict, order |-> 0]

RetDict(d) == [NoRet EXCEPT !.kind = "dict", !.dict = d]

RetOrder(i) == [NoRet EXCEPT !.kind = "order", !.order = i]

Request(method, url, params, headers, data) ==
    [method |-> method, url |-> url, params |-> params, headers |-> headers,
     data |-> data]

\* requests.get(url, params=params)
requests_get(url, params) ==
    Request("GET", url, params, EmptyDict, [k \in {} |-> JNull])

\* requests.post(url, headers=headers, data=data)
requests_post(url, headers, data) == Request("POST", url, EmptyDict, headers, data)

\* a faulty variant: the argument is stored as given, without `or`
TTSMaker_token_asgiven(argv) ==
    IF argv = <<>> THEN PyStr(DemoToken) ELSE argv[1]

\* TTSMaker.__init__: self.token, for TTSMaker(*argv)
TTSMaker_token(argv) ==
    LET tokenArg == IF argv = <<>> THEN PyStr(DemoToken) ELSE argv[1]
    IN  IF Truthy(tokenArg) THEN tokenArg ELSE PyStr(DemoToken)

\* TTSOrder.__init__
TTSOrder(tts_data) ==
    [status           |-> Get(tts_data, "status"),
     error_details    |-> Get(tts_data, "error_details"),
     audio_file_url   |-> Get(tts_data, "audio_file_url"),
     audio_file_type  |-> Get(tts_data, "audio_file_type"),
     tts_data         |-> tts_data]

\* get_voice_list: the query parameters
voice_list_params(tok, language) ==
    IF Truthy(language)
    THEN [token |-> tok, language |-> language]
    ELSE [token |-> tok]

\* get_token_status: the query parameters
token_status_params(tok) == [token |-> tok]

\* a faulty variant: audio_speed is clamped to the documented 0.5 .. 2.0
create_data_clamped(tok, a) ==
    LET speed == GetOr(a, "audio_speed", PyFloat(10))
    IN  [token        |-> tok,
         text         |-> a["text"],
         voice_id     |-> a["voice_id"],
         audio_format |-> GetOr(a, "audio_format", PyStr("mp3")),
         audio_speed  |-> IF speed.n > 20 THEN PyFloat(20)
                          ELSE IF speed.n < 5 THEN PyFloat(5) ELSE speed,
         audio_volume |-> GetOr(a, "audio_volume", PyInt(0)),
         text_paragraph_pause_time |-> GetOr(a, "text_paragraph_pause_time", PyInt(0))]

\* create_tts_order: the dict `data`, for the arguments a (defaults filled in)
create_data(tok, a) ==
    [token        |-> tok,
     text         |-> a["text"],
     voice_id     |-> a["voice_id"],
     audio_format |-> GetOr(a, "audio_format", PyStr("mp3")),
     audio_speed  |-> GetOr(a, "audio_speed", PyFloat(10)),
     audio_volume |-> GetOr(a, "audio_volume", PyInt(0)),
     text_paragraph_pause_time |-> GetOr(a, "text_paragraph_pause_time", PyInt(0))]

\* a faulty variant: a success response without an audio URL is refused too
create_outcome_needs_url(tts_data) ==
    IF "status" \notin DOMAIN tts_data THEN "KeyError"
    ELSE IF tts_data["status"] # PyStr("success")
            \/ "audio_file_url" \notin DOMAIN tts_data THEN "TTSError"
    ELSE "order"

\* a faulty variant: only the status "error" is refused
create_outcome_only_error(tts_data) ==
    IF "status" \notin DOMAIN tts_data THEN "KeyError"
    ELSE IF tts_data["status"] = PyStr("error") THEN "TTSError"
    ELSE "order"

\* create_tts_order: how it ends on the decoded response tts_data
\* ("order": it returns TTSOrder(tts_data))
create_outcome(tts_data) ==
    IF "status" \notin DOMAIN tts_data THEN "KeyError"
    ELSE IF tts_data["status"] # PyStr("success") THEN "TTSError"
    ELSE "order"

\* a faulty variant: only the status "error" is refused
save_refused_only_error(o) == o.status = PyStr("error")

\* save_audio: the guard of its first statement
save_refused(o) == o.status # PyStr("success")

\* a faulty variant: the extension is the default format, not the order's
save_filepath_mp3(o, filename) == Format(filename) \o ".mp3"

\* save_audio: filepath
save_filepath(o, filename) == Format(filename) \o "." \o Format(o.audio_file_type)

\* a faulty variant: every 2xx status counts as a download
download_ok_2xx(response) == response.status_code \in 200..299

\* save_audio: the branch on response.status_code
download_ok(response) == response.status_code = 200

\* a faulty variant: saving marks the order as saved
order_fields_after_save_marked(os, i) == [os EXCEPT ![i].status = PyStr("saved")]

\* save_audio: the orders after orders[i].save_audio, which assigns no attribute
order_fields_after_save(os, i) == os

\* open(filepath, 'wb') and f.write(content), on the file system files
write_file(files, filepath, content) == (filepath :> content) @@ files

\* a faulty variant: the error detail is stripped from the mapping
voice_list_return_stripped(response) ==
    LET d == json(response.body)
    IN  [k \in DOMAIN d \ {"error_details"} |-> d[k]]

\* get_voice_list: the value returned for the response
voice_list_return(response) == json(response.body)

\* get_token_status: the value returned for the response
token_status_return(response) == json(response.body)

(***************************************************************************)
(* The state machine.                                                      *)
(***************************************************************************)
\* how the operation o ended
Ended(o, s, a, reqs, r, e, ln, rv) ==
    /\ op' = o
    /\ self' = s
    /\ args' = a
    /\ sent' = reqs
    /\ reply' = r
    /\ exc' = e
    /\ line' = ln
    /\ ret' = rv

\* client = TTSMaker(*argv)
Init ==
    /\ ctorArgs \in CtorArgs
    /\ token = TTSMaker_token(ctorArgs)
    /\ base_url = BaseUrl
    /\ orders = <<>>
    /\ fromCreate = {}
    /\ fs = InitialFiles
    /\ op = "TTSMaker"
    /\ self = 0
    /\ args = EmptyDict
    /\ sent = <<>>
    /\ reply = NoReply
    /\ exc = "none"
    /\ line = 48
    /\ ret = NoRet

\* client.get_voice_list(**a), the transport answering r
get_voice_list(a, r) ==
    LET language == GetOr(a, "language", PyStr("zh"))
        url      == base_url \o "get-voice-list"
        req      == requests_get(url, voice_list_params(token, language))
    IN  /\ CASE r.kind = "failure" ->
                  Ended("get_voice_list", 0, a, <<req>>, r, "RequestException", 63, NoRet)
              [] r.kind = "notjson" ->
                  Ended("get_voice_list", 0, a, <<req>>, r, "JSONDecodeError", 64, NoRet)
              [] OTHER ->
                  Ended("get_voice_list", 0, a, <<req>>, r, "none", 64,
                        RetDict(voice_list_return(r)))
        /\ UNCHANGED <<client, orders, fromCreate, fs>>

\* client.get_token_status(), the transport answering r
get_token_status(r) ==
    LET url == base_url \o "get-token-status"
        req == requests_get(url, token_status_params(token))
    IN  /\ CASE r.kind = "failure" ->
                  Ended("get_token_status", 0, EmptyDict, <<req>>, r, "RequestException",
                        115, NoRet)
              [] r.kind = "notjson" ->
                  Ended("get_token_status", 0, EmptyDict, <<req>>, r, "JSONDecodeError",
                        116, NoRet)
              [] OTHER ->
                  Ended("get_token_status", 0, EmptyDict, <<req>>, r, "none", 116,
                        RetDict(token_status_return(r)))
        /\ UNCHANGED <<client, orders, fromCreate, fs>>

\* client.create_tts_order(**a), the transport answering r
create_tts_order(a, r) ==
    LET url     == base_url \o "create-tts-order"
        headers == [ContentType |-> PyStr("application/json; charset=utf-8")]
        req     == requests_post(url, headers, json_dumps(create_data(token, a)))
        how     == create_outcome(json(r.body))
    IN  /\ CASE r.kind = "failure" ->
                  /\ Ended("create_tts_order", 0, a, <<req>>, r, "RequestException", 97,
                           NoRet)
                  /\ UNCHANGED <<orders, fromCreate>>
              [] r.kind = "notjson" ->
                  /\ Ended("create_tts_order", 0, a, <<req>>, r, "JSONDecodeError", 98,
                           NoRet)
                  /\ UNCHANGED <<orders, fromCreate>>
              [] r.kind = "json" /\ how = "KeyError" ->
                  /\ Ended("create_tts_order", 0, a, <<req>>, r, "KeyError", 100, NoRet)
                  /\ UNCHANGED <<orders, fromCreate>>
              [] r.kind = "json" /\ how = "TTSError" ->
                  /\ Ended("create_tts_order", 0, a, <<req>>, r, "TTSError", 101, NoRet)
                  /\ UNCHANGED <<orders, fromCreate>>
              [] OTHER ->
                  /\ Len(orders) < MaxOrders
                  /\ orders' = Append(orders, TTSOrder(json(r.body)))
                  /\ fromCreate' = fromCreate \cup {Len(orders) + 1}
                  /\ Ended("create_tts_order", 0, a, <<req>>, r, "none", 103,
                           RetOrder(Len(orders) + 1))
        /\ UNCHANGED <<client, fs>>

\* TTSOrder(tts_data), called by the user of the library
new_order(tts_data) ==
    /\ Len(orders) < MaxOrders
    /\ orders' = Append(orders, TTSOrder(tts_data))
    /\ Ended("TTSOrder", 0, EmptyDict, <<>>, NoReply, "none", 18,
             RetOrder(Len(orders) + 1))
    /\ UNCHANGED <<client, fromCreate, fs>>

\* orders[i].save_audio(**a), the transport answering r
save_audio(i, a, r) ==
    LET o        == orders[i]
        filepath == save_filepath(o, a["filename"])
        req      == requests_get(o.audio_file_url.s, EmptyDict)
    IN  /\ CASE save_refused(o) ->
                  /\ Ended("save_audio", i, a, <<>>, NoReply, "TTSError", 26, NoRet)
                  /\ UNCHANGED fs
              [] ~save_refused(o) /\ o.audio_file_url.ty # "str" ->
                  \* requests.get raises on a URL that is no string
                  /\ Ended("save_audio", i, a, <<>>, NoReply, "RequestException", 32,
                           NoRet)
                  /\ UNCHANGED fs
              [] ~save_refused(o) /\ o.audio_file_url.ty = "str" /\ r.kind = "failure" ->
                  /\ Ended("save_audio", i, a, <<req>>, r, "RequestException", 32, NoRet)
                  /\ UNCHANGED fs
              [] ~save_refused(o) /\ o.audio_file_url.ty = "str" /\ r.kind # "failure"
                    /\ download_ok(r) ->
                  /\ fs' = write_file(fs, filepath, r.content)
                  /\ Ended("save_audio", i, a, <<req>>, r, "none", 36, NoRet)
              [] OTHER ->
                  /\ fs' = fs
                  /\ Ended("save_audio", i, a, <<req>>, r, "TTSError", 38, NoRet)
        /\ orders' = order_fields_after_save(orders, i)
        /\ UNCHANGED <<client, fromCreate>>

Next ==
    \/ \E a \in VoiceArgs, r \in ApiReplies : get_voice_list(a, r)
    \/ \E r \in ApiReplies : get_token_status(r)
    \/ \E a \in CreateArgs, r \in ApiReplies : create_tts_order(a, r)
    \/ \E d \in OrderData : new_order(d)
    \/ \E i \in 1..Len(orders), a \in SaveArgs, r \in AudioReplies : save_audio(i, a, r)

Spec == Init /\ [][Next]_vars

(***************************************************************************)
(* Properties.                                                             *)
(***************************************************************************)
Success == PyStr("success")

ClientOps == {"get_voice_list", "create_tts_order", "get_token_status"}

\* the last operation got a JSON object from the server
GotJson == reply.kind = "json"

\* the "status" member of the decoded response, None when it has none
ReplyStatus == Get(json(reply.body), "status")

\* C1: create_tts_order, on a response mapping whose "status" is absent, null
\* or anything but "success", raises TTSError and returns no order.
C1_NonSuccessRaisesTTSError ==
    (op = "create_tts_order" /\ GotJson /\ ReplyStatus # Success)
        => (exc = "TTSError" /\ ret.kind # "order")

\* C2: save_audio on an order whose status is not "success" raises TTSError
\* at once: it issues no request and leaves every file as it was.
C2_RefusedSaveDoesNothing ==
    [][ (op' = "save_audio" /\ orders'[self'].status # Success)
            => /\ exc' = "TTSError"
               /\ line' = 26
               /\ sent' = <<>>
               /\ fs' = fs ]_vars

C2_Witness ==
    /\ op = "save_audio"
    /\ orders[self].status = PyStr("error")
    /\ orders[self].audio_file_url = PyStr(AudioUrl)
    /\ exc = "TTSError"
    /\ sent = <<>>

\* the path {filename}.{audio_file_type} of a save of order o
TargetPath(o, a) == Format(a["filename"]) \o "." \o Format(o.audio_file_type)

\* C3: save_audio(filename) on a success order whose fetch answers 200 writes
\* one file, {filename}.{audio_file_type}, holding the response body; every
\* other file is as it was.
C3_SaveWritesTheBody ==
    [][ (op' = "save_audio" /\ orders'[self'].status = Success
            /\ reply'.kind = "audio" /\ reply'.status_code = 200)
            => LET path == TargetPath(orders'[self'], args')
               IN  /\ exc' = "none"
                   /\ DOMAIN fs' = DOMAIN fs \cup {path}
                   /\ fs'[path] = reply'.content
                   /\ \A f \in DOMAIN fs \ {path} : fs'[f] = fs[f] ]_vars

C3_Witness ==
    /\ op = "save_audio"
    /\ reply.status_code = 200
    /\ orders[self].audio_file_type = PyStr("mp3")
    /\ DOMAIN fs = {"notes.txt", "out.mp3"}
    /\ fs["out.mp3"] = "OggS"
    /\ fs["notes.txt"] = "kept"

\* C4: save_audio on a success order whose fetch answers anything but 200
\* raises TTSError and leaves every file as it was.
C4_FailedDownloadWritesNothing ==
    [][ (op' = "save_audio" /\ orders'[self'].status = Success
            /\ reply'.kind = "audio" /\ reply'.status_code # 200)
            => (exc' = "TTSError" /\ fs' = fs) ]_vars

C4_Witness ==
    /\ op = "save_audio"
    /\ reply.kind = "audio"
    /\ reply.status_code = 206
    /\ reply.content = "ID3"
    /\ exc = "TTSError"
    /\ "out.mp3" \in DOMAIN fs
    /\ fs["out.mp3"] = "OggS"

\* the token a request carries
RequestToken(req) ==
    IF req.method = "POST" THEN json_value(req.data["token"]) ELSE req.params["token"]

\* C5: every request of get_voice_list, create_tts_order and get_token_status
\* carries the demo token when the client was constructed with no token or
\* a falsy one, and the constructor's token otherwise.
C5_RequestsCarryTheToken ==
    op \in ClientOps
        => /\ Len(sent) = 1
           /\ RequestToken(sent[1]) =
                 IF ctorArgs = <<>> \/ ~Truthy(ctorArgs[1])
                 THEN PyStr(DemoToken)
                 ELSE ctorArgs[1]

C5_Witness ==
    /\ ctorArgs = <<PyStr("")>>
    /\ op = "create_tts_order"
    /\ sent[1].data["token"] = JStr(DemoToken)

C7_MappingReturnedUnmodified ==
    (op \in {"get_voice_list", "get_token_status"} /\ GotJson)
        => /\ exc = "none"
           /\ ret.kind = "dict"
           /\ ret.dict = json(reply.body)

C7_Witness ==
    /\ op = "get_voice_list"
    /\ GotJson
    /\ ReplyStatus = PyStr("error")
    /\ ret.dict["error_details"] = PyStr("quota")
    /\ DOMAIN ret.dict = DOMAIN reply.body

DataKeys ==
    {"token", "text", "voice_id", "audio_format", "audio_speed", "audio_volume",
     "text_paragraph_pause_time"}

\* the documented default of the parameter k of create_tts_order
DefaultOf(k) ==
    CASE k = "audio_format" -> PyStr("mp3")
      [] k = "audio_speed"  -> PyFloat(10)
      [] OTHER              -> PyInt(0)

\* C8: create_tts_order issues one POST, whatever the argument values, and
\* its JSON body holds the token and the six parameters with the caller's
\* values (the default for a parameter the caller left out).
C8_PostCarriesTheArguments ==
    op = "create_tts_order"
        => /\ Len(sent) = 1
           /\ sent[1].method = "POST"
           /\ sent[1].url = BaseUrl \o "create-tts-order"
           /\ LET body == json(sent[1].data)
              IN  /\ DOMAIN body = DataKeys
                  /\ body["token"] = token
                  /\ \A k \in DataKeys \ {"token"} :
                        body[k] = IF k \in DOMAIN args THEN args[k] ELSE DefaultOf(k)

C8_Witness ==
    /\ op = "create_tts_order"
    /\ "audio_speed" \in DOMAIN args
    /\ args["audio_speed"] = PyFloat(30)
    /\ args["audio_format"] = PyStr("wav")
    /\ sent[1].data["audio_speed"] = JReal(30)
    /\ sent[1].data["text_paragraph_pause_time"] = JInt(9999)

\* C9: no operation changes the client's token or base URL, or any field of
\* an order that exists.
C9_ClientAndOrdersNeverMutated ==
    [][ /\ token' = token
        /\ base_url' = base_url
        /\ Len(orders') >= Len(orders)
        /\ \A i \in 1..Len(orders) : orders'[i] = orders[i] ]_vars

C9_Witness ==
    /\ op = "save_audio"
    /\ exc = "none"
    /\ token = PyStr("my_token")
    /\ base_url = BaseUrl
    /\ orders[self] = TTSOrder(json([status |-> JStr("success"),
                                      audio_file_url |-> JStr(AudioUrl),
                                      audio_file_type |-> JStr("mp3")]))

\* C10: an order create_tts_order returned has status "success" and wraps
\* the whole response; save_audio on it is never refused at its first
\* statement and reaches the fetch; a refused save is on an order that was
\* constructed directly, from data whose status is not success.
C10_CreatedOrdersAreSuccess ==
    /\ \A i \in fromCreate : orders[i].status = Success
    /\ (op = "create_tts_order" /\ ret.kind = "order")
         => /\ ret.order \in fromCreate
            /\ orders[ret.order].tts_data = json(reply.body)
    /\ (op = "save_audio" /\ self \in fromCreate) => line \in {32, 36, 38}
    /\ (op = "save_audio" /\ line = 26)
         => /\ self \notin fromCreate
            /\ Get(orders[self].tts_data, "status") # Success

C10_Witness ==
    /\ op = "save_audio"
    /\ self \in fromCreate
    /\ Len(sent) = 1
    /\ sent[1].url = AudioUrl

====
